---- MODULE Spec2Model ----
(***************************************************************************)
(* A model of script/inis-pdf-to-text.py: the column-spec parser, the      *)
(* glyph line grouper, the bold-aware line reconstructor, the blank-line   *)
(* cleaner and the page loop of pdf_to_txt_parity_boxes with main.         *)
(*                                                                         *)
(* Each component has its own specification (SpecCols, SpecGroup,          *)
(* SpecLine, SpecClean, SpecRun).  A specification drives the variables of *)
(* its component and leaves the variables of the others at their idle      *)
(* values.                                                                 *)
(***************************************************************************)
EXTENDS Integers, Sequences, FiniteSets, TLC

VARIABLES
  \* parse_cols_spec
  cs_spec, cs_width, cs_pc, cs_result,
  \* _group_chars_into_lines
  g_chars, g_tol, g_pc, g_sorted, g_i, g_lines, g_current_line, g_current_top,
  \* _reconstruct_line_with_bold
  l_chars, l_pc, l_i, l_out, l_in_bold, l_prev_x1, l_prev_w,
  \* clean_lines
  c_text, c_pc, c_lines, c_i, c_out, c_last_blank, c_result,
  \* pdf_to_txt_parity_boxes and main
  r_args, r_doc, r_pc, r_sp, r_ep, r_idx0, r_col_boxes, r_all_text,
  r_out_file, r_writes, r_err, r_exit, r_log

colsVars  == <<cs_spec, cs_width, cs_pc, cs_result>>
groupVars == <<g_chars, g_tol, g_pc, g_sorted, g_i, g_lines, g_current_line,
               g_current_top>>
lineVars  == <<l_chars, l_pc, l_i, l_out, l_in_bold, l_prev_x1, l_prev_w>>
cleanVars == <<c_text, c_pc, c_lines, c_i, c_out, c_last_blank, c_result>>
runVars   == <<r_args, r_doc, r_pc, r_sp, r_ep, r_idx0, r_col_boxes,
               r_all_text, r_out_file, r_writes, r_err, r_exit, r_log>>
vars      == <<colsVars, groupVars, lineVars, cleanVars, runVars>>

\* Python's None where the other values are strings (an error kind).
None == "None"

\* An optional value: Nil is Python's None, Some(v) the value v.
Nil == <<>>
Some(v) == <<v>>
Val(o) == o[1]

NoResult == [err |-> "pending", boxes |-> <<>>]
NoArgs == [pdf_exists |-> FALSE, start_page |-> 0, end_page |-> Nil,
           default_cols |-> 0, odd_cols_spec |-> Nil, even_cols_spec |-> Nil]

ColsIdle  == cs_spec = <<>> /\ cs_width = 0 /\ cs_pc = "idle" /\ cs_result = NoResult
GroupIdle == /\ g_chars = <<>> /\ g_tol = 0 /\ g_pc = "idle" /\ g_sorted = <<>>
             /\ g_i = 0 /\ g_lines = <<>> /\ g_current_line = <<>>
             /\ g_current_top = Nil
LineIdle  == /\ l_chars = <<>> /\ l_pc = "idle" /\ l_i = 0 /\ l_out = <<>>
             /\ l_in_bold = FALSE /\ l_prev_x1 = Nil /\ l_prev_w = Nil
CleanIdle == /\ c_text = <<>> /\ c_pc = "idle" /\ c_lines = <<>> /\ c_i = 0
             /\ c_out = <<>> /\ c_last_blank = FALSE /\ c_result = <<>>
RunIdle   == /\ r_args = NoArgs /\ r_doc = <<>> /\ r_pc = "idle" /\ r_sp = 0
             /\ r_ep = 0 /\ r_idx0 = 0 /\ r_col_boxes = <<>> /\ r_all_text = <<>>
             /\ r_out_file = Nil /\ r_writes = 0 /\ r_err = None
             /\ r_exit = Nil /\ r_log = <<>>

\* Sequences over S of length at most n.
SeqUpTo(S, n) == UNION {[1..k -> S] : k \in 0..n}

\* The subsequence of s at the indices 1..n.
Prefix(s, n) == SubSeq(s, 1, n)

(***************************************************************************)
(* Python's sorted(xs, key=...): a stable sort, elements with equal keys   *)
(* keep their input order.  A key is a tuple of numbers, compared as       *)
(* Python compares tuples; the sort works on <<key, item>> pairs.          *)
(***************************************************************************)
TupleLess(a, b) ==
  \E k \in 1..Len(a) : a[k] < b[k] /\ \A j \in 1..(k - 1) : a[j] = b[j]

RECURSIVE InsertByKey(_, _)
InsertByKey(pair, sorted) ==
  IF sorted = <<>> THEN <<pair>>
  ELSE IF TupleLess(pair[1], Head(sorted)[1]) THEN <<pair>> \o sorted
       ELSE <<Head(sorted)>> \o InsertByKey(pair, Tail(sorted))

RECURSIVE SortPairs(_)
SortPairs(pairs) ==
  IF pairs = <<>> THEN <<>>
  ELSE InsertByKey(pairs[Len(pairs)], SortPairs(Prefix(pairs, Len(pairs) - 1)))

\* sorted(items, key=...), keys[k] being the key of items[k].
Sorted(items, keys) ==
  LET ps == SortPairs([k \in 1..Len(items) |-> <<keys[k], items[k]>>])
  IN [k \in 1..Len(items) |-> ps[k][2]]

(***************************************************************************)
(* parse_cols_spec                                                          *)
(*                                                                         *)
(* A column spec "x0:x1,x2:x3" is a sequence of comma-separated tokens.  A *)
(* token is the sequence of its ':'-separated fields: <<>> is a token of   *)
(* white space only, <<f>> a token without ':', <<a, b>> the token "a:b".  *)
(* A field <<"pt", v>> is the number v, <<"pct", v>> is "v%".              *)
(***************************************************************************)

\* The number of tokens of a column spec (bound of SpecCols).
MaxTokens == 3

ColsWidths == {100, 200}
ColsFields == {<<"pt", 0>>, <<"pt", 50>>, <<"pt", 100>>, <<"pt", 150>>,
               <<"pct", 50>>}
ColsTokens == {<<>>, << <<"pt", 50>> >>}
              \cup {<<a, b>> : a \in ColsFields, b \in ColsFields}

\* _parse_coord: "v%" is v / 100 * width, anything else the number itself.
\* The percentages and widths of the model make v * width a multiple of 100.
ParseCoord(token, width) ==
  IF token[1] = "pct" THEN (token[2] * width) \div 100 ELSE token[2]

\* parts = [p for p in spec.split(",") if p.strip()]
Parts(spec) == SelectSeq(spec, LAMBDA p : p # <<>>)

\* The loop over parts: the first bad token raises, the others append a box.
RECURSIVE ParseParts(_, _, _)
ParseParts(parts, width, boxes) ==
  IF parts = <<>> THEN [err |-> None, boxes |-> boxes]
  ELSE LET p == Head(parts) IN
       IF Len(p) < 2
       THEN [err |-> "missing_colon", boxes |-> <<>>]
       ELSE LET x0 == ParseCoord(p[1], width)
                x1 == ParseCoord(p[2], width)
            IN IF x1 <= x0
               THEN [err |-> "bad_box", boxes |-> <<>>]
               ELSE ParseParts(Tail(parts), width, Append(boxes, <<x0, x1>>))

\* key=lambda t: t[0]
BoxKey(t) == <<t[1]>>

\* sorted(boxes, key=lambda t: t[0])
SortBoxes(boxes) == Sorted(boxes, [k \in 1..Len(boxes) |-> BoxKey(boxes[k])])

OverlapsPrevLoose(s, i) == s[i][1] <= s[i - 1][2]

\* boxes_sorted[i][0] < boxes_sorted[i-1][1]
OverlapsPrev(s, i) == s[i][1] < s[i - 1][2]

ParseColsSpec(spec, width) ==
  IF spec = <<>> THEN [err |-> None, boxes |-> <<>>]
  ELSE LET parsed == ParseParts(Parts(spec), width, <<>>) IN
       IF parsed.err # None THEN parsed
       ELSE LET boxes_sorted == SortBoxes(parsed.boxes) IN
            IF \E i \in 2..Len(boxes_sorted) : OverlapsPrev(boxes_sorted, i)
            THEN [err |-> "overlap", boxes |-> <<>>]
            ELSE [err |-> None, boxes |-> boxes_sorted]

\* equal_columns: n boxes of width / n each.  The widths and counts of the
\* model make width / n a whole number.
EqualColumns(width, n) ==
  LET step == width \div n IN [i \in 1..n |-> <<(i - 1) * step, i * step>>]

InitCols ==
  /\ cs_spec \in SeqUpTo(ColsTokens, MaxTokens)
  /\ cs_width \in ColsWidths
  /\ cs_pc = "start"
  /\ cs_result = NoResult
  /\ GroupIdle /\ LineIdle /\ CleanIdle /\ RunIdle

ColsParse ==
  /\ cs_pc = "start"
  /\ cs_result' = ParseColsSpec(cs_spec, cs_width)
  /\ cs_pc' = "done"
  /\ UNCHANGED <<cs_spec, cs_width, groupVars, lineVars, cleanVars, runVars>>

NextCols == ColsParse

SpecCols == InitCols /\ [][NextCols]_vars

----------------------------------------------------------------------------
\* Claim formulas for parse_cols_spec.

\* A token that parse_cols_spec turns into a box.
GoodToken(p, width) ==
  Len(p) = 2 /\ ParseCoord(p[2], width) > ParseCoord(p[1], width)

TokenBox(p, width) == <<ParseCoord(p[1], width), ParseCoord(p[2], width)>>

\* Two of the spec's boxes, at different places of the spec, share a point.
SomeTwoOverlap(spec, width) ==
  LET ps == Parts(spec) IN
  \E i, j \in 1..Len(ps) :
     /\ i # j
     /\ TokenBox(ps[i], width)[1] <= TokenBox(ps[j], width)[1]
     /\ TokenBox(ps[j], width)[1] < TokenBox(ps[i], width)[2]

IsPermutation(s, t) ==
  /\ Len(s) = Len(t)
  /\ \E f \in [1..Len(s) -> 1..Len(s)] :
        /\ \A i, j \in 1..Len(s) : i # j => f[i] # f[j]
        /\ \A i \in 1..Len(s) : t[f[i]] = s[i]

\* C1: parse_cols_spec raises or returns the spec's boxes, each with x1 > x0,
\* in strictly increasing x0 order and with x0[i+1] >= x1[i]; it raises the
\* overlap error exactly when every token is a box and two boxes overlap,
\* as "0:100,50:150" does.
C1_BoxesSortedDisjoint ==
  cs_pc = "done" =>
    LET r  == cs_result
        ps == Parts(cs_spec)
        allGood == \A k \in 1..Len(ps) : GoodToken(ps[k], cs_width)
    IN /\ r.err \in {None, "missing_colon", "bad_box", "overlap"}
       /\ r.err = None =>
            /\ \A k \in 1..Len(r.boxes) : r.boxes[k][2] > r.boxes[k][1]
            /\ \A k \in 2..Len(r.boxes) :
                  /\ r.boxes[k][1] > r.boxes[k - 1][1]
                  /\ r.boxes[k][1] >= r.boxes[k - 1][2]
            /\ allGood
            /\ IsPermutation([k \in 1..Len(ps) |-> TokenBox(ps[k], cs_width)],
                             r.boxes)
       /\ (r.err = "overlap") <=> (allGood /\ SomeTwoOverlap(cs_spec, cs_width))
       /\ cs_spec = << <<<<"pt", 0>>, <<"pt", 100>>>>,
                       <<<<"pt", 50>>, <<"pt", 150>>>> >> => r.err = "overlap"

\* A spec of three boxes given out of order is returned sorted.
C1_Witness ==
  /\ cs_pc = "done"
  /\ cs_result.err = None
  /\ Len(cs_result.boxes) = 3
  /\ cs_result.boxes # [k \in 1..3 |-> TokenBox(Parts(cs_spec)[k], cs_width)]

----------------------------------------------------------------------------
(***************************************************************************)
(* _group_chars_into_lines                                                  *)
(*                                                                         *)
(* A glyph is [id, top, x0]: id is its place in the input list, top and x0 *)
(* its coordinates.  A top is a whole number of 1/4096 points, which a     *)
(* Python float holds exactly, so that round(top, 3) is not the identity.  *)
(***************************************************************************)

\* The number of glyphs handed to the grouper (bound of SpecGroup).
MaxChars == 3

\* One point, in units of top.
Point == 4 * 1024

GroupTops == {0, 1, Point, Point + 1, 2 * Point + 2}
GroupX0s  == {0, 1, 2}
\* line_tol = max(1.0, y_tolerance): 1.0 and the default 2.0.
GroupTols == {Point, 2 * Point}

Abs(x) == IF x < 0 THEN -x ELSE x

\* round(top, 3) in thousandths of a point: Python rounds the exact value of
\* the float to the nearest thousandth, a tie to the even one.
RoundTop(top) ==
  LET q == (top * 1000) \div Point
      r == (top * 1000) % Point
  IN IF 2 * r > Point THEN q + 1
     ELSE IF 2 * r = Point /\ q % 2 = 1 THEN q + 1
     ELSE q

\* key=lambda c: (round(c.get("top", 0.0), 3), c.get("x0", 0.0))
CharKey(c) == <<RoundTop(c.top), c.x0>>

\* sorted(chars, key=lambda c: (round(c.get("top", 0.0), 3), c.get("x0", 0.0)))
SortChars(chars) == Sorted(chars, [k \in 1..Len(chars) |-> CharKey(chars[k])])

\* key=lambda c: c.get("x0", 0.0)
X0Key(c) == <<c.x0>>

\* sorted(current_line, key=lambda c: c.get("x0", 0.0))
SortLine(line) == Sorted(line, [k \in 1..Len(line) |-> X0Key(line[k])])

AnchorFollows(current_top, ch_top) == ch_top

\* current_top after a glyph joins the current line: left as it is.
AnchorAfterJoin(current_top, ch_top) == current_top

\* The body of "for ch in chars_sorted": the lines, the current line and its
\* anchor after the glyph ch.
GroupIter(ch, line_tol, lines, current_line, current_top) ==
  IF current_line # <<>> /\ current_top # Nil
  THEN IF Abs(ch.top - Val(current_top)) > line_tol
       THEN [lines |-> Append(lines, SortLine(current_line)),
             current_line |-> <<ch>>,
             current_top |-> Some(ch.top)]
       ELSE [lines |-> lines,
             current_line |-> Append(current_line, ch),
             current_top |-> Some(AnchorAfterJoin(Val(current_top), ch.top))]
  ELSE [lines |-> lines, current_line |-> <<ch>>, current_top |-> Some(ch.top)]

\* if current_line: lines.append(sorted(current_line, ...)); return lines
GroupClose(lines, current_line) ==
  IF current_line # <<>> THEN Append(lines, SortLine(current_line)) ELSE lines

\* The loop over chars_sorted from place i on, and what is returned after it.
RECURSIVE GroupLoop(_, _, _, _, _, _)
GroupLoop(chars_sorted, i, line_tol, lines, current_line, current_top) ==
  IF i > Len(chars_sorted) THEN GroupClose(lines, current_line)
  ELSE LET n == GroupIter(chars_sorted[i], line_tol, lines, current_line,
                          current_top)
       IN GroupLoop(chars_sorted, i + 1, line_tol, n.lines, n.current_line,
                    n.current_top)

\* _group_chars_into_lines
GroupCharsIntoLines(chars, line_tol) ==
  IF chars = <<>> THEN <<>>
  ELSE GroupLoop(SortChars(chars), 1, line_tol, <<>>, <<>>, Nil)

InitGroup ==
  /\ \E s \in SeqUpTo(GroupTops \X GroupX0s, MaxChars) :
        g_chars = [k \in 1..Len(s) |-> [id |-> k, top |-> s[k][1], x0 |-> s[k][2]]]
  /\ g_tol \in GroupTols
  /\ g_pc = "start"
  /\ g_sorted = <<>> /\ g_i = 0 /\ g_lines = <<>> /\ g_current_line = <<>>
  /\ g_current_top = Nil
  /\ ColsIdle /\ LineIdle /\ CleanIdle /\ RunIdle

\* if not chars: return []; chars_sorted = sorted(chars, key=...)
GroupStart ==
  /\ g_pc = "start"
  /\ IF g_chars = <<>>
     THEN g_pc' = "done" /\ UNCHANGED <<g_sorted, g_i>>
     ELSE /\ g_sorted' = SortChars(g_chars)
          /\ g_i' = 1
          /\ g_pc' = "loop"
  /\ UNCHANGED <<g_chars, g_tol, g_lines, g_current_line, g_current_top>>
  /\ UNCHANGED <<colsVars, lineVars, cleanVars, runVars>>

\* One iteration of "for ch in chars_sorted".
GroupStep ==
  /\ g_pc = "loop"
  /\ g_i <= Len(g_sorted)
  /\ LET n == GroupIter(g_sorted[g_i], g_tol, g_lines, g_current_line,
                        g_current_top)
     IN /\ g_lines' = n.lines
        /\ g_current_line' = n.current_line
        /\ g_current_top' = n.current_top
  /\ g_i' = g_i + 1
  /\ UNCHANGED <<g_chars, g_tol, g_pc, g_sorted>>
  /\ UNCHANGED <<colsVars, lineVars, cleanVars, runVars>>

\* if current_line: lines.append(sorted(current_line, ...)); return lines
GroupFinish ==
  /\ g_pc = "loop"
  /\ g_i > Len(g_sorted)
  /\ g_lines' = GroupClose(g_lines, g_current_line)
  /\ g_pc' = "done"
  /\ UNCHANGED <<g_chars, g_tol, g_sorted, g_i, g_current_line, g_current_top>>
  /\ UNCHANGED <<colsVars, lineVars, cleanVars, runVars>>

NextGroup == GroupStart \/ GroupStep \/ GroupFinish

SpecGroup == InitGroup /\ [][NextGroup]_vars

----------------------------------------------------------------------------
\* Claim formulas for _group_chars_into_lines.

\* A top in thousandths of a point, rounded to a whole thousandth or exact.
TopKey(top, rounded) == IF rounded THEN RoundTop(top) * Point ELSE top * 1000

\* s is the input in scan order: a permutation of the input in
\* non-decreasing (top, x0) order, equal keys in input order; the top is
\* rounded to 3 decimals or taken as it is.
ScannedInOrder(s, rounded) ==
  /\ Len(s) = Len(g_chars)
  /\ \A j, k \in 1..Len(s) : j # k => s[j].id # s[k].id
  /\ \A k \in 2..Len(s) :
        \/ TopKey(s[k - 1].top, rounded) < TopKey(s[k].top, rounded)
        \/ /\ TopKey(s[k - 1].top, rounded) = TopKey(s[k].top, rounded)
           /\ \/ s[k - 1].x0 < s[k].x0
              \/ s[k - 1].x0 = s[k].x0 /\ s[k - 1].id < s[k].id

\* The input in (top, x0) order.
ScanBy(rounded) ==
  CHOOSE s \in [1..Len(g_chars) -> {g_chars[k] : k \in 1..Len(g_chars)}] :
     ScannedInOrder(s, rounded)

\* The place in the scan order s of the anchor of the line that holds s[k]:
\* the first glyph of that line.
RECURSIVE AnchorPos(_, _, _)
AnchorPos(s, tol, k) ==
  IF k = 1 THEN 1
  ELSE LET a == AnchorPos(s, tol, k - 1) IN
       IF Abs(s[k].top - s[a].top) > tol THEN k ELSE a

\* The number of the line that holds s[k].
LineOf(s, tol, k) == Cardinality({AnchorPos(s, tol, j) : j \in 1..k})

\* The lines partition the input, glyph s[k] lies in the line its anchor
\* opens, within the tolerance of that anchor, and each line is in
\* non-decreasing x0 order.
GroupedAlong(s, tol, lines) ==
  /\ (s = <<>>) => (lines = <<>>)
  /\ \A n \in 1..Len(lines) : lines[n] # <<>>
  /\ \A c \in 1..Len(g_chars) :
        Cardinality({<<n, m>> \in (1..Len(lines)) \X (1..Len(g_chars)) :
                        m <= Len(lines[n]) /\ lines[n][m].id = c}) = 1
  /\ \A n \in 1..Len(lines) : \A m \in 1..Len(lines[n]) :
        lines[n][m] = g_chars[lines[n][m].id]
  /\ s # <<>> => Len(lines) = LineOf(s, tol, Len(s))
  /\ \A k \in 1..Len(s) :
        LET n == LineOf(s, tol, k) IN
        /\ n <= Len(lines)
        /\ \E m \in 1..Len(lines[n]) : lines[n][m] = s[k]
        /\ Abs(s[k].top - s[AnchorPos(s, tol, k)].top) <= tol
  /\ \A n \in 1..Len(lines) : \A m \in 2..Len(lines[n]) :
        lines[n][m - 1].x0 <= lines[n][m].x0

\* While a line grows its anchor is the top of its first glyph.
AnchorIsFirstTop ==
  g_pc = "loop" /\ g_current_line # <<>> =>
     g_current_top = Some(g_current_line[1].top)

\* C10 (as amended): the returned lines partition the input; scanning the
\* glyphs in (top rounded to 3 decimals, x0) order, a glyph starts a new line
\* exactly when |its top - the anchor's top| > tolerance, the anchor being the
\* top of the first glyph of the line; each line is ordered by x0.
C10_GroupsByRoundedScan ==
  /\ AnchorIsFirstTop
  /\ g_pc = "loop" => g_sorted = ScanBy(TRUE)
  /\ g_pc = "done" => GroupedAlong(ScanBy(TRUE), g_tol, g_lines)

\* C10 (as stated): the same, scanning the glyphs in (top, x0) order.
C10_GroupsByExactScan ==
  /\ AnchorIsFirstTop
  /\ g_pc = "done" => GroupedAlong(ScanBy(FALSE), g_tol, g_lines)

\* Three glyphs in two lines, the first line re-sorted by x0 and holding a
\* glyph that is within the tolerance of the anchor but not of its neighbour.
C10_Witness ==
  /\ g_pc = "done"
  /\ Len(g_lines) = 2
  /\ Len(g_lines[1]) = 2
  /\ g_lines[1] # Prefix(g_sorted, 2)

----------------------------------------------------------------------------
(***************************************************************************)
(* _looks_bold and _reconstruct_line_with_bold                              *)
(*                                                                         *)
(* A glyph is [text, x0, x1, fontname]: text is a string, x0 and x1 are    *)
(* optional numbers (ch.get("x0", None)), fontname a sequence of           *)
(* characters.  The output list "out" is a sequence of strings.            *)
(***************************************************************************)

\* The number of glyphs of a line (bound of SpecLine).
MaxLineLen == 3

\* gap_ratio: float = 0.5, as GapNum / GapDen.
GapNum == 1
GapDen == 2
\* avg_char_w = ... else 3.0
FallbackWidth == 3

UpperCase == <<"A", "B", "C", "D", "E", "F", "G", "H", "I", "J", "K", "L", "M",
               "N", "O", "P", "Q", "R", "S", "T", "U", "V", "W", "X", "Y", "Z">>
LowerCase == <<"a", "b", "c", "d", "e", "f", "g", "h", "i", "j", "k", "l", "m",
               "n", "o", "p", "q", "r", "s", "t", "u", "v", "w", "x", "y", "z">>

\* str.lower on one character.
LowerChar(c) ==
  IF \E k \in 1..26 : UpperCase[k] = c
  THEN LowerCase[CHOOSE k \in 1..26 : UpperCase[k] = c]
  ELSE c

\* fontname.lower()
Lower(str) == [k \in 1..Len(str) |-> LowerChar(str[k])]

\* _BOLD_TOKENS
BoldTokens == {<<"b", "o", "l", "d">>, <<"b", "d">>, <<"b", "l", "a", "c", "k">>,
               <<"h", "e", "a", "v", "y">>,
               <<"s", "e", "m", "i", "b", "o", "l", "d">>, <<"d", "e", "m", "i">>,
               <<"m", "e", "d", "i", "u", "m", "b", "o", "l", "d">>}

\* tok in fn
Contains(str, tok) ==
  \E k \in 0..(Len(str) - Len(tok)) : SubSeq(str, k + 1, k + Len(tok)) = tok

\* _looks_bold
LooksBold(fontname) ==
  IF fontname = <<>> THEN FALSE
  ELSE LET fn == Lower(fontname) IN \E tok \in BoldTokens : Contains(fn, tok)

ArialBold == <<"A", "r", "i", "a", "l", "-", "B", "o", "l", "d">>
Arial     == <<"A", "r", "i", "a", "l">>
Heavy     == <<"H", "E", "A", "V", "Y">>

Glyph(t, x0, x1, f) == [text |-> t, x0 |-> x0, x1 |-> x1, fontname |-> f]

\* The boxes of the glyphs of the model: widths 2, 0, 1 and 2, an unknown left
\* edge and an unknown right edge.
LineGeoms == {<<Some(0), Some(2)>>, <<Some(2), Some(2)>>, <<Some(3), Some(4)>>,
              <<Some(4), Some(6)>>, <<Nil, Some(2)>>, <<Some(3), Nil>>}

LineGlyphs ==
  {Glyph("A", g[1], g[2], f) : g \in LineGeoms, f \in {Arial, ArialBold}}
  \cup {Glyph("", Some(0), Some(2), ArialBold), Glyph("", Some(4), Some(6), Arial),
        Glyph("B", Some(3), Some(4), <<>>), Glyph("B", Some(4), Some(6), Heavy)}

\* w = max(0.0, x1 - x0) when both are known, else None
GlyphWidth(ch) ==
  IF ch.x0 # Nil /\ ch.x1 # Nil
  THEN Some(IF Val(ch.x1) - Val(ch.x0) > 0 THEN Val(ch.x1) - Val(ch.x0) ELSE 0)
  ELSE Nil

\* avg_char_w = prev_w if prev_w is not None and prev_w > 0 else 3.0
AvgCharW(prev_w) ==
  IF prev_w # Nil /\ Val(prev_w) > 0 THEN Val(prev_w) ELSE FallbackWidth

WideGapLoose(x0, prev_x1, prev_w) ==
  (x0 - prev_x1) * GapDen >= GapNum * AvgCharW(prev_w)

\* (x0 - prev_x1) > gap_ratio * avg_char_w
WideGap(x0, prev_x1, prev_w) ==
  (x0 - prev_x1) * GapDen > GapNum * AvgCharW(prev_w)

ClosingNever(in_bold) == <<>>

\* if in_bold: out.append("</bold>")
Closing(in_bold) == IF in_bold THEN <<"</bold>">> ELSE <<>>

\* The body of "for ch in line_chars": out, in_bold and the tracking of the
\* previous glyph after the glyph ch.
LineIter(ch, out, in_bold, prev_x1, prev_w) ==
  IF ch.text = ""
  THEN [out |-> out, in_bold |-> in_bold, prev_x1 |-> prev_x1, prev_w |-> prev_w]
  ELSE LET space == IF /\ prev_x1 # Nil
                       /\ ch.x0 # Nil
                       /\ WideGap(Val(ch.x0), Val(prev_x1), prev_w)
                    THEN <<" ">> ELSE <<>>
           is_bold == LooksBold(ch.fontname)
           marker == IF is_bold /\ ~in_bold THEN <<"<bold>">>
                     ELSE IF ~is_bold /\ in_bold THEN <<"</bold>">>
                     ELSE <<>>
       IN [out |-> out \o space \o marker \o <<ch.text>>,
           in_bold |-> is_bold,
           prev_x1 |-> ch.x1,
           prev_w |-> GlyphWidth(ch)]

\* The loop over line_chars from place i on, and the list out after it.
RECURSIVE LineLoop(_, _, _, _, _, _)
LineLoop(line_chars, i, out, in_bold, prev_x1, prev_w) ==
  IF i > Len(line_chars) THEN out \o Closing(in_bold)
  ELSE LET n == LineIter(line_chars[i], out, in_bold, prev_x1, prev_w)
       IN LineLoop(line_chars, i + 1, n.out, n.in_bold, n.prev_x1, n.prev_w)

\* _reconstruct_line_with_bold, as the list out that it joins.
ReconstructLineWithBold(line_chars) ==
  IF line_chars = <<>> THEN <<>>
  ELSE LineLoop(line_chars, 1, <<>>, FALSE, Nil, Nil)

InitLine ==
  /\ l_chars \in SeqUpTo(LineGlyphs, MaxLineLen)
  /\ l_pc = "start"
  /\ l_i = 0 /\ l_out = <<>> /\ l_in_bold = FALSE
  /\ l_prev_x1 = Nil /\ l_prev_w = Nil
  /\ ColsIdle /\ GroupIdle /\ CleanIdle /\ RunIdle

\* if not line_chars: return ""
LineStart ==
  /\ l_pc = "start"
  /\ IF l_chars = <<>>
     THEN l_pc' = "done" /\ UNCHANGED l_i
     ELSE l_pc' = "loop" /\ l_i' = 1
  /\ UNCHANGED <<l_chars, l_out, l_in_bold, l_prev_x1, l_prev_w>>
  /\ UNCHANGED <<colsVars, groupVars, cleanVars, runVars>>

\* One iteration of "for ch in line_chars".
LineStep ==
  /\ l_pc = "loop"
  /\ l_i <= Len(l_chars)
  /\ LET n == LineIter(l_chars[l_i], l_out, l_in_bold, l_prev_x1, l_prev_w)
     IN /\ l_out' = n.out
        /\ l_in_bold' = n.in_bold
        /\ l_prev_x1' = n.prev_x1
        /\ l_prev_w' = n.prev_w
  /\ l_i' = l_i + 1
  /\ UNCHANGED <<l_chars, l_pc>>
  /\ UNCHANGED <<colsVars, groupVars, cleanVars, runVars>>

\* After the loop: close a bold run left open; return "".join(out).
LineFinish ==
  /\ l_pc = "loop"
  /\ l_i > Len(l_chars)
  /\ l_out' = l_out \o Closing(l_in_bold)
  /\ l_pc' = "done"
  /\ UNCHANGED <<l_chars, l_i, l_in_bold, l_prev_x1, l_prev_w>>
  /\ UNCHANGED <<colsVars, groupVars, cleanVars, runVars>>

NextLine == LineStart \/ LineStep \/ LineFinish

SpecLine == InitLine /\ [][NextLine]_vars

\* "".join(out)
RECURSIVE Join(_)
Join(out) == IF out = <<>> THEN "" ELSE Head(out) \o Join(Tail(out))

----------------------------------------------------------------------------
\* Claim formulas for _reconstruct_line_with_bold.

IsMarker(t) == t \in {"<bold>", "</bold>"}

Markers(out) == SelectSeq(out, IsMarker)

\* Opening and closing markers alternate, an opening one first.
Alternating(ms) ==
  \A k \in 1..Len(ms) : ms[k] = IF k % 2 = 1 THEN "<bold>" ELSE "</bold>"

\* The places of the glyphs of the line that have text.
TextPlaces(line) == {k \in 1..Len(line) : line[k].text # ""}

\* C6: the bold markers of a line's output are balanced: they alternate
\* open/close starting with an opening one, never nest, and the finished
\* line has as many closing as opening markers; the fonts Arial-Bold, Arial,
\* Arial-Bold on three adjacent glyphs A, B, C give <bold>A</bold>B<bold>C</bold>.
C6_BoldBalanced ==
  /\ Alternating(Markers(l_out))
  /\ l_pc = "done" =>
       /\ Len(Markers(l_out)) % 2 = 0
       /\ l_out # <<>> => ~IsMarker(l_out[Len(l_out)]) \/ l_out[Len(l_out)] = "</bold>"
       /\ (\E k \in TextPlaces(l_chars) : LooksBold(l_chars[k].fontname))
            <=> Markers(l_out) # <<>>
       /\ ( /\ Len(l_chars) = 3
            /\ TextPlaces(l_chars) = {1, 2, 3}
            /\ [k \in 1..3 |-> l_chars[k].fontname] = <<ArialBold, Arial, ArialBold>>
            /\ " " \notin {l_out[k] : k \in 1..Len(l_out)} )
          => Join(l_out) = "<bold>" \o l_chars[1].text \o "</bold>" \o l_chars[2].text
                           \o "<bold>" \o l_chars[3].text \o "</bold>"

\* A line that ends inside a bold run after an earlier bold run was closed:
\* the closing marker after the last glyph is the fourth marker.
C6_Witness ==
  /\ l_pc = "done"
  /\ Len(Markers(l_out)) = 4
  /\ l_out[Len(l_out)] = "</bold>"
  /\ l_in_bold

\* The last glyph before place k that has text (0 when there is none).
PrevTextPlace(line, k) ==
  IF \E j \in TextPlaces(line) : j < k
  THEN CHOOSE j \in TextPlaces(line) :
          j < k /\ \A m \in TextPlaces(line) : m < k => m <= j
  ELSE 0

\* The reference width of the claim: the glyph's width if positive, else 3.0.
RefWidth(ch) ==
  IF ch.x0 # Nil /\ ch.x1 # Nil /\ Val(ch.x1) - Val(ch.x0) > 0
  THEN Val(ch.x1) - Val(ch.x0)
  ELSE 3

\* A space belongs before the glyph at place k of the line.
SpaceBefore(line, k) ==
  LET j == PrevTextPlace(line, k) IN
  /\ j # 0
  /\ line[k].x0 # Nil
  /\ line[j].x1 # Nil
  /\ 2 * (Val(line[k].x0) - Val(line[j].x1)) > RefWidth(line[j])

\* The texts of the first n glyphs, each with the space that belongs before it.
RECURSIVE SpacedText(_, _)
SpacedText(line, n) ==
  IF n = 0 THEN <<>>
  ELSE SpacedText(line, n - 1)
       \o (IF line[n].text = "" THEN <<>>
           ELSE (IF SpaceBefore(line, n) THEN <<" ">> ELSE <<>>) \o <<line[n].text>>)

NotMarker(t) == ~IsMarker(t)

\* C7: a glyph with text that follows an earlier glyph with text gets exactly
\* one space before it exactly when its left x minus the right x of the last
\* glyph with text exceeds gap_ratio times that glyph's width (3.0 when the
\* width is not positive or not known); no space when the gap is at or below
\* the threshold, none before the first glyph, and a glyph without text adds
\* nothing and leaves the tracking alone.
C7_SpaceIffGapExceeds ==
  /\ l_pc = "loop" => SelectSeq(l_out, NotMarker) = SpacedText(l_chars, l_i - 1)
  /\ l_pc = "done" => SelectSeq(l_out, NotMarker) = SpacedText(l_chars, Len(l_chars))
  /\ l_pc = "loop" /\ l_i > 1 =>
       LET j == PrevTextPlace(l_chars, l_i) IN
       /\ j = 0 => l_prev_x1 = Nil /\ l_prev_w = Nil
       /\ j # 0 => l_prev_x1 = l_chars[j].x1

\* A glyph without text stands between two glyphs with text; the gap between
\* those two is wide and got its space.
C7_Witness ==
  /\ l_pc = "done"
  /\ Len(l_chars) = 3
  /\ TextPlaces(l_chars) = {1, 3}
  /\ SpaceBefore(l_chars, 3)
  /\ 2 * (Val(l_chars[3].x0) - Val(l_chars[2].x1)) <= RefWidth(l_chars[2])

----------------------------------------------------------------------------
(***************************************************************************)
(* clean_lines                                                              *)
(*                                                                         *)
(* A text is a sequence of characters; a line is a sequence of characters  *)
(* without line breaks.                                                    *)
(***************************************************************************)

\* The number of characters of a text (bound of SpecClean).
MaxTextLen == 6

TextChars == {"a", " ", "\n", "\r"}
WhiteSpace == {" ", "\n", "\r"}

\* str.splitlines: "\n", "\r" and "\r\n" end a line; what follows the last
\* line break is a line unless it is empty.
RECURSIVE SplitLinesFrom(_, _, _)
SplitLinesFrom(text, cur, acc) ==
  IF text = <<>> THEN (IF cur = <<>> THEN acc ELSE Append(acc, cur))
  ELSE IF Head(text) = "\r" /\ Len(text) >= 2 /\ text[2] = "\n"
       THEN SplitLinesFrom(Tail(Tail(text)), <<>>, Append(acc, cur))
  ELSE IF Head(text) \in {"\n", "\r"}
       THEN SplitLinesFrom(Tail(text), <<>>, Append(acc, cur))
  ELSE SplitLinesFrom(Tail(text), Append(cur, Head(text)), acc)

SplitLines(text) == SplitLinesFrom(text, <<>>, <<>>)

\* str.rstrip
RECURSIVE RStrip(_)
RStrip(str) ==
  IF str # <<>> /\ str[Len(str)] \in WhiteSpace
  THEN RStrip(Prefix(str, Len(str) - 1))
  ELSE str

\* str.lstrip
RECURSIVE LStrip(_)
LStrip(str) ==
  IF str # <<>> /\ Head(str) \in WhiteSpace THEN LStrip(Tail(str)) ELSE str

\* str.strip
Strip(str) == LStrip(RStrip(str))

\* "\n".join(out)
RECURSIVE JoinLines(_)
JoinLines(out) ==
  IF out = <<>> THEN <<>>
  ELSE IF Len(out) = 1 THEN out[1]
  ELSE out[1] \o <<"\n">> \o JoinLines(Tail(out))

SuppressEveryBlank(blank, last_blank) == blank

\* if blank and last_blank: continue
Suppress(blank, last_blank) == blank /\ last_blank

\* lines = [ln.rstrip() for ln in text.splitlines()]
RStrippedLines(text) ==
  LET split == SplitLines(text) IN [k \in 1..Len(split) |-> RStrip(split[k])]

\* The body of "for ln in lines": out and last_blank after the line ln.
CleanIter(ln, out, last_blank) ==
  LET blank == Strip(ln) = <<>> IN
  IF Suppress(blank, last_blank)
  THEN [out |-> out, last_blank |-> last_blank]
  ELSE [out |-> Append(out, ln), last_blank |-> blank]

\* The loop over lines from place i on, and what is returned after it.
RECURSIVE CleanLoop(_, _, _, _)
CleanLoop(lines, i, out, last_blank) ==
  IF i > Len(lines) THEN Strip(JoinLines(out))
  ELSE LET n == CleanIter(lines[i], out, last_blank)
       IN CleanLoop(lines, i + 1, n.out, n.last_blank)

\* clean_lines
CleanLines(text) ==
  IF text = <<>> THEN <<>>
  ELSE CleanLoop(RStrippedLines(text), 1, <<>>, FALSE)

InitClean ==
  /\ c_text \in SeqUpTo(TextChars, MaxTextLen)
  /\ c_pc = "start"
  /\ c_lines = <<>> /\ c_i = 0 /\ c_out = <<>> /\ c_last_blank = FALSE
  /\ c_result = <<>>
  /\ ColsIdle /\ GroupIdle /\ LineIdle /\ RunIdle

\* if not text: return ""; lines = [ln.rstrip() for ln in text.splitlines()]
CleanStart ==
  /\ c_pc = "start"
  /\ IF c_text = <<>>
     THEN c_pc' = "done" /\ UNCHANGED <<c_lines, c_i>>
     ELSE /\ c_lines' = RStrippedLines(c_text)
          /\ c_i' = 1
          /\ c_pc' = "loop"
  /\ UNCHANGED <<c_text, c_out, c_last_blank, c_result>>
  /\ UNCHANGED <<colsVars, groupVars, lineVars, runVars>>

\* One iteration of "for ln in lines".
CleanStep ==
  /\ c_pc = "loop"
  /\ c_i <= Len(c_lines)
  /\ LET n == CleanIter(c_lines[c_i], c_out, c_last_blank)
     IN c_out' = n.out /\ c_last_blank' = n.last_blank
  /\ c_i' = c_i + 1
  /\ UNCHANGED <<c_text, c_pc, c_lines, c_result>>
  /\ UNCHANGED <<colsVars, groupVars, lineVars, runVars>>

\* return "\n".join(out).strip()
CleanFinish ==
  /\ c_pc = "loop"
  /\ c_i > Len(c_lines)
  /\ c_result' = Strip(JoinLines(c_out))
  /\ c_pc' = "done"
  /\ UNCHANGED <<c_text, c_lines, c_i, c_out, c_last_blank>>
  /\ UNCHANGED <<colsVars, groupVars, lineVars, runVars>>

NextClean == CleanStart \/ CleanStep \/ CleanFinish

SpecClean == InitClean /\ [][NextClean]_vars

----------------------------------------------------------------------------
\* Claim formulas for clean_lines.

IsBlank(ln) == \A k \in 1..Len(ln) : ln[k] \in WhiteSpace

\* The lines of the output: it is cut at each "\n"; the empty output has none.
RECURSIVE CutAtNewlines(_, _, _)
CutAtNewlines(text, cur, acc) ==
  IF text = <<>> THEN Append(acc, cur)
  ELSE IF Head(text) = "\n" THEN CutAtNewlines(Tail(text), <<>>, Append(acc, cur))
  ELSE CutAtNewlines(Tail(text), Append(cur, Head(text)), acc)

OutputLines(text) == IF text = <<>> THEN <<>> ELSE CutAtNewlines(text, <<>>, <<>>)

\* The places of the lines that are not blank, in order.
RECURSIVE NonBlankPlaces(_, _)
NonBlankPlaces(lines, n) ==
  IF n = 0 THEN <<>>
  ELSE NonBlankPlaces(lines, n - 1)
       \o (IF IsBlank(lines[n]) THEN <<>> ELSE <<n>>)

\* C8: the output of clean_lines has no two consecutive blank lines and no
\* leading or trailing blank line; its non-blank lines are those of the input,
\* as many and in the same order; between two non-blank lines that follow one
\* another the output keeps one blank line exactly when the input has at
\* least one there.
C8_BlankRunsCollapsed ==
  c_pc = "done" =>
    LET inl == SplitLines(c_text)
        outl == OutputLines(c_result)
        ip == NonBlankPlaces(inl, Len(inl))
        op == NonBlankPlaces(outl, Len(outl))
    IN /\ \A k \in 2..Len(outl) : ~(IsBlank(outl[k - 1]) /\ IsBlank(outl[k]))
       /\ outl # <<>> => ~IsBlank(outl[1]) /\ ~IsBlank(outl[Len(outl)])
       /\ Len(op) = Len(ip)
       /\ \A k \in 1..Len(op) :
             outl[op[k]] = IF k = 1 THEN Strip(inl[ip[k]]) ELSE RStrip(inl[ip[k]])
       /\ \A k \in 2..Len(op) :
             op[k] - op[k - 1] = IF ip[k] - ip[k - 1] > 1 THEN 2 ELSE 1

\* A text that starts with a blank line and has a run of two blank lines
\* between two non-blank lines.
C8_Witness ==
  /\ c_pc = "done"
  /\ LET inl == SplitLines(c_text) IN
     /\ Len(inl) = 5
     /\ IsBlank(inl[1]) /\ ~IsBlank(inl[2]) /\ IsBlank(inl[3]) /\ IsBlank(inl[4])
     /\ ~IsBlank(inl[5])
  /\ Len(OutputLines(c_result)) = 3

----------------------------------------------------------------------------
(***************************************************************************)
(* extract_page_columns, pdf_to_txt_parity_boxes and main                   *)
(*                                                                         *)
(* A document is the sequence of its pages; a page is [width, chars],      *)
(* chars the glyphs the page has between its header and its footer, in the *)
(* order pdfplumber lists them.  A glyph is [text, top, x0, x1, fontname], *)
(* top in units of 1 / Point and x0, x1 in points.  A text is a sequence   *)
(* of characters.  r_log records the pages in the order they are begun and *)
(* ended.                                                                  *)
(***************************************************************************)

\* The number of pages of a document (bound of SpecRun).
MaxPages == 3

PageChar(t, top, x0, x1, f) ==
  [text |-> t, top |-> top, x0 |-> x0, x1 |-> x1, fontname |-> f]

\* A page of two lines in its left column, the first in bold, and two words
\* in its right column, listed right column first.
PageTwoLines ==
  [width |-> 120,
   chars |-> <<PageChar("C", 0, 90, 92, Arial),
               PageChar("B", 3 * Point, 30, 32, Arial),
               PageChar("A", 0, 30, 32, ArialBold),
               PageChar("D", 1, 94, 96, Arial)>>]

\* A wider page with a glyph in its left and a bold one in its right column.
PageWide ==
  [width |-> 240,
   chars |-> <<PageChar("A", 0, 30, 32, Arial),
               PageChar("B", 0, 210, 212, Heavy)>>]

\* A page whose only glyphs are a blank and a glyph without text.
PageBlank ==
  [width |-> 120,
   chars |-> <<PageChar(" ", 0, 30, 32, Arial),
               PageChar("", 0, 90, 92, ArialBold)>>]

PageKinds == {PageTwoLines, PageWide, PageBlank}

Docs == SeqUpTo(PageKinds, MaxPages) \ {<<>>}

\* The document of the scenario "start=6, end=None, 10 pages".
ScenarioDoc == [k \in 1..10 |-> PageTwoLines]

Pct(v) == <<"pct", v>>
Pt(v) == <<"pt", v>>

\* "0%:50%,50%:100%", "60", "60:0", "0:120,60:180", "50%:120" and ",".
SpecValid    == << <<Pct(0), Pct(50)>>, <<Pct(50), Pct(100)>> >>
SpecNoColon  == << <<Pt(60)>> >>
SpecBadBox   == << <<Pt(60), Pt(0)>> >>
SpecOverlap  == << <<Pt(0), Pt(120)>>, <<Pt(60), Pt(180)>> >>
SpecWidthDep == << <<Pct(50), Pt(120)>> >>
SpecCommas   == << <<>>, <<>> >>

\* --odd-cols / --even-cols: absent, "" or a spec.
RunSpecs == {Nil, Some(<<>>), Some(SpecValid), Some(SpecNoColon),
             Some(SpecBadBox), Some(SpecOverlap), Some(SpecWidthDep),
             Some(SpecCommas)}

RunDefaultCols == {0, 3}

Max(a, b) == IF a > b THEN a ELSE b
Min(a, b) == IF a < b THEN a ELSE b

\* sp = max(1, start_page)
ClampStart(start_page) == Max(1, start_page)

ClampEndNoFloor(sp, end_page, total) ==
  Min(IF end_page # Nil THEN Val(end_page) ELSE total, total)

\* ep = end_page if end_page is not None else total; ep = max(sp, min(ep, total))
ClampEnd(sp, end_page, total) ==
  Max(sp, Min(IF end_page # Nil THEN Val(end_page) ELSE total, total))

LoopDoneEarly(idx0, ep) == idx0 >= ep - 1

\* for idx0 in range(sp - 1, ep): the loop is over
LoopDone(idx0, ep) == idx0 >= ep

\* "if odd_cols_spec": neither None nor "".
Truthy(spec) == spec # Nil /\ Val(spec) # <<>>

ChooseBoxesFirstWidth(page_num, doc, args) ==
  IF page_num % 2 = 1 /\ Truthy(args.odd_cols_spec)
  THEN ParseColsSpec(Val(args.odd_cols_spec), doc[1].width)
  ELSE IF page_num % 2 = 0 /\ Truthy(args.even_cols_spec)
  THEN ParseColsSpec(Val(args.even_cols_spec), doc[1].width)
  ELSE IF args.default_cols = 0
  THEN [err |-> "ZeroDivisionError", boxes |-> <<>>]
  ELSE [err |-> None, boxes |-> EqualColumns(doc[1].width, args.default_cols)]

ChooseBoxesRecovering(page_num, doc, args) ==
  LET W == doc[page_num].width
      fallback == IF args.default_cols = 0
                  THEN [err |-> "ZeroDivisionError", boxes |-> <<>>]
                  ELSE [err |-> None, boxes |-> EqualColumns(W, args.default_cols)]
      parsed == IF page_num % 2 = 1 /\ Truthy(args.odd_cols_spec)
                THEN ParseColsSpec(Val(args.odd_cols_spec), W)
                ELSE IF page_num % 2 = 0 /\ Truthy(args.even_cols_spec)
                THEN ParseColsSpec(Val(args.even_cols_spec), W)
                ELSE fallback
  IN IF parsed.err \in {"missing_colon", "bad_box", "overlap"} THEN fallback
     ELSE parsed

\* Choose boxes: odd vs even (W = page.width); equal_columns divides by n.
ChooseBoxes(page_num, doc, args) ==
  LET W == doc[page_num].width IN
  IF page_num % 2 = 1 /\ Truthy(args.odd_cols_spec)
  THEN ParseColsSpec(Val(args.odd_cols_spec), W)
  ELSE IF page_num % 2 = 0 /\ Truthy(args.even_cols_spec)
  THEN ParseColsSpec(Val(args.even_cols_spec), W)
  ELSE IF args.default_cols = 0
  THEN [err |-> "ZeroDivisionError", boxes |-> <<>>]
  ELSE [err |-> None, boxes |-> EqualColumns(W, args.default_cols)]

\* --y-tolerance, default 2.0
YTolerance == 2 * Point

\* line_tol=max(1.0, y_tolerance)
LineTol(y_tolerance) == Max(Point, y_tolerance)

\* cp = page.crop(bbox); chars = cp.chars or []: the glyphs of the page that
\* start inside the box, in the page's order.  No glyph of the model's pages
\* crosses an edge of a box.
CropChars(page, xx0, xx1) ==
  SelectSeq(page.chars, LAMBDA c : xx0 <= c.x0 /\ c.x0 < xx1)

\* The glyph as _reconstruct_line_with_bold reads it: ch.get("x0", None) and
\* ch.get("x1", None) of a glyph that has both keys.
LineChar(c) == Glyph(c.text, Some(c.x0), Some(c.x1), c.fontname)

\* The characters of an element of the list out: a marker, a space or the
\* text of a glyph, which is one character or none.
TokenChars(t) ==
  IF t = "<bold>" THEN <<"<", "b", "o", "l", "d", ">">>
  ELSE IF t = "</bold>" THEN <<"<", "/", "b", "o", "l", "d", ">">>
  ELSE IF t = "" THEN <<>>
  ELSE <<t>>

\* "".join(out), as a sequence of characters
RECURSIVE JoinChars(_)
JoinChars(out) ==
  IF out = <<>> THEN <<>> ELSE TokenChars(Head(out)) \o JoinChars(Tail(out))

\* "\n\n".join(texts)
RECURSIVE JoinParagraphs(_)
JoinParagraphs(texts) ==
  IF texts = <<>> THEN <<>>
  ELSE IF Len(texts) = 1 THEN texts[1]
  ELSE texts[1] \o <<"\n", "\n">> \o JoinParagraphs(Tail(texts))

\* extract_text_with_bold: group the glyphs of the crop into lines, rebuild
\* each line, join the lines with "\n" and clean the result.
ExtractTextWithBold(page, xx0, xx1, line_tol) ==
  LET lines == GroupCharsIntoLines(CropChars(page, xx0, xx1), line_tol)
      s_lines == [n \in 1..Len(lines) |->
                    JoinChars(ReconstructLineWithBold(
                      [m \in 1..Len(lines[n]) |-> LineChar(lines[n][m])]))]
  IN CleanLines(JoinLines(s_lines))

\* The loop of extract_page_columns: clamp each box to [0, W], skip the empty
\* ones, append clean_lines(t) for each column text t that is not empty.
RECURSIVE ColTexts(_, _, _)
ColTexts(page, col_boxes, y_tolerance) ==
  IF col_boxes = <<>> THEN <<>>
  ELSE LET xx0 == Max(0, Min(page.width, Head(col_boxes)[1]))
           xx1 == Max(0, Min(page.width, Head(col_boxes)[2]))
           rest == ColTexts(page, Tail(col_boxes), y_tolerance)
       IN IF xx1 <= xx0 THEN rest
          ELSE LET t == ExtractTextWithBold(page, xx0, xx1, LineTol(y_tolerance))
               IN IF t # <<>> THEN <<CleanLines(t)>> \o rest ELSE rest

\* extract_page_columns: "\n\n".join([t for t in col_texts if t])
ExtractPageColumns(page, col_boxes) ==
  JoinParagraphs(SelectSeq(ColTexts(page, col_boxes, YTolerance),
                           LAMBDA t : t # <<>>))

RunArgs ==
  [pdf_exists : {TRUE}, start_page : 0..(MaxPages + 1),
   end_page : {Nil} \cup {Some(e) : e \in 0..(MaxPages + 1)},
   default_cols : RunDefaultCols, odd_cols_spec : RunSpecs,
   even_cols_spec : RunSpecs]

ScenarioArgs ==
  [pdf_exists |-> TRUE, start_page |-> 6, end_page |-> Nil, default_cols |-> 3,
   odd_cols_spec |-> Nil, even_cols_spec |-> Nil]

InitRun ==
  /\ \/ r_args \in RunArgs /\ r_doc \in Docs
     \/ /\ r_args \in {[a EXCEPT !.pdf_exists = FALSE] : a \in RunArgs}
        /\ r_doc = <<>>
     \/ r_args = ScenarioArgs /\ r_doc = ScenarioDoc
  /\ r_pc = "start"
  /\ r_sp = 0 /\ r_ep = 0 /\ r_idx0 = 0 /\ r_col_boxes = <<>> /\ r_all_text = <<>>
  /\ r_out_file = Nil /\ r_writes = 0 /\ r_err = None /\ r_exit = Nil
  /\ r_log = <<>>
  /\ ColsIdle /\ GroupIdle /\ LineIdle /\ CleanIdle

\* if not pdf_path.exists(): raise FileNotFoundError; total, sp, ep, all_text
RunOpen ==
  /\ r_pc = "start"
  /\ IF ~r_args.pdf_exists
     THEN /\ r_err' = "FileNotFoundError"
          /\ r_pc' = "raised"
          /\ UNCHANGED <<r_sp, r_ep, r_idx0>>
     ELSE /\ r_sp' = ClampStart(r_args.start_page)
          /\ r_ep' = ClampEnd(ClampStart(r_args.start_page), r_args.end_page,
                              Len(r_doc))
          /\ r_idx0' = ClampStart(r_args.start_page) - 1
          /\ r_pc' = "loop"
          /\ UNCHANGED r_err
  /\ UNCHANGED <<r_args, r_doc, r_col_boxes, r_all_text, r_out_file, r_writes,
                 r_exit, r_log>>
  /\ UNCHANGED <<colsVars, groupVars, lineVars, cleanVars>>

\* page = pdf.pages[idx0]; page_num = idx0 + 1; choose the boxes of the page.
RunPageBoxes ==
  /\ r_pc = "loop"
  /\ ~LoopDone(r_idx0, r_ep)
  /\ IF r_idx0 + 1 > Len(r_doc)
     THEN /\ r_err' = "IndexError"
          /\ r_pc' = "raised"
          /\ UNCHANGED <<r_col_boxes, r_log>>
     ELSE LET chosen == ChooseBoxes(r_idx0 + 1, r_doc, r_args) IN
          /\ r_log' = Append(r_log, <<r_idx0 + 1, "begin">>)
          /\ IF chosen.err # None
             THEN r_err' = chosen.err /\ r_pc' = "raised" /\ UNCHANGED r_col_boxes
             ELSE r_col_boxes' = chosen.boxes /\ r_pc' = "extract" /\ UNCHANGED r_err
  /\ UNCHANGED <<r_args, r_doc, r_sp, r_ep, r_idx0, r_all_text, r_out_file,
                 r_writes, r_exit>>
  /\ UNCHANGED <<colsVars, groupVars, lineVars, cleanVars>>

\* page_text = extract_page_columns(...); if page_text: all_text.append(page_text)
RunPageExtract ==
  /\ r_pc = "extract"
  /\ LET page_text == ExtractPageColumns(r_doc[r_idx0 + 1], r_col_boxes) IN
     r_all_text' = IF page_text # <<>> THEN Append(r_all_text, page_text)
                   ELSE r_all_text
  /\ r_log' = Append(r_log, <<r_idx0 + 1, "end">>)
  /\ r_idx0' = r_idx0 + 1
  /\ r_pc' = "loop"
  /\ UNCHANGED <<r_args, r_doc, r_sp, r_ep, r_col_boxes, r_out_file, r_writes,
                 r_err, r_exit>>
  /\ UNCHANGED <<colsVars, groupVars, lineVars, cleanVars>>

\* out_path.write_text("\n\n".join(all_text), encoding="utf-8")
RunWrite ==
  /\ r_pc = "loop"
  /\ LoopDone(r_idx0, r_ep)
  /\ r_out_file' = Some(JoinParagraphs(r_all_text))
  /\ r_writes' = r_writes + 1
  /\ r_pc' = "returned"
  /\ UNCHANGED <<r_args, r_doc, r_sp, r_ep, r_idx0, r_col_boxes, r_all_text,
                 r_err, r_exit, r_log>>
  /\ UNCHANGED <<colsVars, groupVars, lineVars, cleanVars>>

\* main: except Exception as e: ...; return 1
MainCatch ==
  /\ r_pc = "raised"
  /\ r_exit' = Some(1)
  /\ r_pc' = "exit"
  /\ UNCHANGED <<r_args, r_doc, r_sp, r_ep, r_idx0, r_col_boxes, r_all_text,
                 r_out_file, r_writes, r_err, r_log>>
  /\ UNCHANGED <<colsVars, groupVars, lineVars, cleanVars>>

\* main: print(f"Wrote: {args.out}"); return 0
MainReturn ==
  /\ r_pc = "returned"
  /\ r_exit' = Some(0)
  /\ r_pc' = "exit"
  /\ UNCHANGED <<r_args, r_doc, r_sp, r_ep, r_idx0, r_col_boxes, r_all_text,
                 r_out_file, r_writes, r_err, r_log>>
  /\ UNCHANGED <<colsVars, groupVars, lineVars, cleanVars>>

NextRun ==
  RunOpen \/ RunPageBoxes \/ RunPageExtract \/ RunWrite \/ MainCatch \/ MainReturn

SpecRun == InitRun /\ [][NextRun]_vars

----------------------------------------------------------------------------
\* Claim formulas for pdf_to_txt_parity_boxes and main.

Total == Len(r_doc)

\* The page range of a run: start clamped to >= 1, end defaulting to the last
\* page, clamped to the page count and raised to the start.
FirstPage == IF r_args.start_page < 1 THEN 1 ELSE r_args.start_page
LastPage ==
  LET e == IF r_args.end_page = Nil \/ Val(r_args.end_page) > Total
           THEN Total ELSE Val(r_args.end_page)
  IN IF e < FirstPage THEN FirstPage ELSE e

\* Pages first..last, each begun and then ended, in increasing order.
PagesInTurn(first, last) ==
  [k \in 1..(2 * (last - first + 1)) |->
     <<first + ((k - 1) \div 2), IF k % 2 = 1 THEN "begin" ELSE "end">>]

IsPrefix(s, t) == Len(s) <= Len(t) /\ s = Prefix(t, Len(s))

Logged(entry) == \E k \in 1..Len(r_log) : r_log[k] = entry

\* The glyph prints something: it has text, and the text is not white space
\* or is set in bold (the markers around it are text).
Prints(c) == c.text # "" /\ (c.text \notin WhiteSpace \/ LooksBold(c.fontname))

\* Some glyph of the page that prints something starts inside one of the boxes.
HasText(page, boxes) ==
  \E k \in 1..Len(boxes), m \in 1..Len(page.chars) :
     /\ Max(0, boxes[k][1]) <= page.chars[m].x0
     /\ page.chars[m].x0 < Min(page.width, boxes[k][2])
     /\ Prints(page.chars[m])

\* The pages whose extraction has ended and that had text.
EndedWithText ==
  {k \in 1..Len(r_log) :
     /\ r_log[k][2] = "end"
     /\ HasText(r_doc[r_log[k][1]],
                ChooseBoxes(r_log[k][1], r_doc, r_args).boxes)}

SpecErrors == {"missing_colon", "bad_box", "overlap"}

\* C2: the output file is written at most once and only after every page of
\* the range was extracted without error; a run that fails (missing input,
\* an error on any page, also after earlier pages were extracted) writes
\* nothing.
C2_WrittenOnceAfterAllPages ==
  /\ r_writes <= 1
  /\ (r_writes = 1) <=> (r_out_file # Nil)
  /\ r_out_file # Nil =>
       /\ r_err = None
       /\ r_args.pdf_exists
       /\ \A p \in FirstPage..LastPage : Logged(<<p, "end">>)
       /\ Val(r_out_file) = JoinParagraphs(r_all_text)
  /\ r_err # None => r_out_file = Nil /\ r_writes = 0
  /\ r_pc = "exit" => (r_exit = Some(0) <=> r_writes = 1)

\* A column-spec error on a page after an earlier page was extracted.
C2_Witness ==
  /\ r_pc = "exit"
  /\ r_err \in SpecErrors
  /\ \E k \in 1..Len(r_log) : r_log[k][2] = "end"
  /\ r_out_file = Nil

\* C3 (as stated): a start page beyond the page count processes no page and
\* yields the empty document text instead of failing; when the clamped end
\* is below a start within the document, exactly the start page is processed.
C3_StartBeyondTotalYieldsNothing ==
  r_pc = "exit" /\ r_args.pdf_exists =>
    /\ r_args.start_page > Total =>
         r_exit = Some(0) /\ r_log = <<>> /\ r_out_file = Some(<<>>)
    /\ ( /\ 1 <= r_args.start_page /\ r_args.start_page <= Total
         /\ r_args.end_page # Nil /\ Val(r_args.end_page) < r_args.start_page )
       => IsPrefix(r_log, PagesInTurn(r_args.start_page, r_args.start_page))

\* The spec the page's parity selects.
ParitySpec(p) ==
  IF p % 2 = 1 THEN r_args.odd_cols_spec ELSE r_args.even_cols_spec

\* The spec is supplied and malformed against the width: a token without
\* ':', a box with x1 <= x0, or two boxes that overlap.
Malformed(spec, width) ==
  /\ spec # Nil
  /\ Val(spec) # <<>>
  /\ LET ps == Parts(Val(spec)) IN
     IF \E k \in 1..Len(ps) : ~GoodToken(ps[k], width) THEN TRUE
     ELSE SomeTwoOverlap(Val(spec), width)

\* The pages of the range whose parity's spec is malformed against their width.
BadPages ==
  {p \in FirstPage..LastPage :
     p <= Total /\ Malformed(ParitySpec(p), r_doc[p].width)}

MinOf(S) == CHOOSE x \in S : \A y \in S : x <= y

\* C4 (as amended): if the page range holds a page whose parity's spec is
\* supplied and malformed against that page's width, the run aborts with
\* exit code 1 and writes no output; the failing page is not skipped or
\* recovered and no later page is processed.
C4_AbortsWhenRangeUsesMalformedSpec ==
  r_pc = "exit" /\ r_args.pdf_exists /\ BadPages # {} =>
    /\ r_exit = Some(1)
    /\ r_out_file = Nil
    /\ r_writes = 0
    /\ \A k \in 1..Len(r_log) :
          \/ r_log[k][1] < MinOf(BadPages)
          \/ r_log[k] = <<MinOf(BadPages), "begin">>

\* C4 (as stated): if the odd-page or the even-page spec is malformed, then
\* for every page range the run aborts with exit code 1 and no output.
C4_AbortsForEveryRange ==
  r_pc = "exit" /\ r_args.pdf_exists
  /\ (\E spec \in {r_args.odd_cols_spec, r_args.even_cols_spec} :
         \A p \in 1..Total : Malformed(spec, r_doc[p].width))
  => r_exit = Some(1) /\ r_out_file = Nil

\* The run aborted on a malformed spec at a page after the first of the range.
C4_Witness ==
  /\ r_pc = "exit"
  /\ BadPages # {}
  /\ MinOf(BadPages) > FirstPage
  /\ r_err \in SpecErrors
  /\ r_exit = Some(1)
  /\ r_all_text # <<>>

\* C5: for 1 <= start <= total the pages processed are start..end' with
\* end' = max(start, min(end, total)), each once, in increasing order, each
\* ended and its text appended before the next begins; start=6, end=None on
\* a 10-page document processes pages 6, 7, 8, 9, 10.
C5_PagesInIncreasingOrder ==
  /\ ( /\ r_args.pdf_exists
       /\ 1 <= r_args.start_page /\ r_args.start_page <= Total )
     => LET e == IF r_args.end_page = Nil THEN Total ELSE Val(r_args.end_page)
            last == Max(r_args.start_page, Min(e, Total))
            full == PagesInTurn(r_args.start_page, last)
        IN /\ IsPrefix(r_log, full)
           /\ r_pc \in {"returned", "exit"} /\ r_err = None => r_log = full
           /\ Len(r_all_text) = Cardinality(EndedWithText)
           /\ r_pc = "extract" => r_log[Len(r_log)] = <<r_idx0 + 1, "begin">>
  /\ r_doc = ScenarioDoc /\ r_args = ScenarioArgs /\ r_pc = "exit"
     => [k \in 1..5 |-> r_log[2 * k]]
        = <<<<6, "end">>, <<7, "end">>, <<8, "end">>, <<9, "end">>, <<10, "end">>>>

\* The scenario: start=6, end=None on 10 pages has run to its end.
C5_Witness ==
  /\ r_pc = "exit"
  /\ r_doc = ScenarioDoc
  /\ r_args = ScenarioArgs
  /\ r_exit = Some(0)
  /\ Len(r_log) = 10
  /\ Len(r_all_text) = 5

\* C9: the boxes of a page are its parity's spec parsed against the page's
\* own width when that spec is supplied and not empty, else default_cols
\* equal columns over the page's own width; they are computed anew per page.
C9_BoxesByParityAndOwnWidth ==
  r_pc = "extract" =>
    LET p == r_idx0 + 1
        W == r_doc[p].width
        n == r_args.default_cols
        spec == ParitySpec(p)
    IN IF spec # Nil /\ Val(spec) # <<>>
       THEN r_col_boxes = ParseColsSpec(Val(spec), W).boxes
       ELSE /\ Len(r_col_boxes) = n
            /\ \A i \in 1..n : /\ r_col_boxes[i][1] * n = (i - 1) * W
                               /\ r_col_boxes[i][2] * n = i * W

\* An even page wider than the first page gets equal columns over its own
\* width although the odd-page spec is supplied.
C9_Witness ==
  /\ r_pc = "extract"
  /\ r_idx0 + 1 = 2
  /\ r_doc[2].width # r_doc[1].width
  /\ Truthy(r_args.odd_cols_spec)
  /\ r_args.even_cols_spec = Some(<<>>)
  /\ r_col_boxes = <<<<0, 80>>, <<80, 160>>, <<160, 240>>>>

====
